---------------------------- MODULE Spec2Model ----------------------------
(***************************************************************************)
(* The media scanner workflow of                                           *)
(* examples/workflow-media-scanner/src/mediaScannerMachine.ts: one actor   *)
(* running the machine `mediaScanner`, its context, the promise actor it   *)
(* has invoked, and the events delivered to it.                            *)
(*                                                                         *)
(* Encoding of the JavaScript values that travel in events: an object is a *)
(* record with the object's keys; an array that is itself the payload of   *)
(* an event is the record [items |-> <<...>>], so that every payload is a  *)
(* record.  Context fields hold plain sequences.                           *)
(***************************************************************************)
EXTENDS Naturals, Sequences, FiniteSets, TLC

VARIABLES
    state,      \* the active state node of the machine (snapshot.value)
    context,    \* snapshot.context
    status,     \* snapshot.status: "active" or "error"
    invoked,    \* the invoked promise actor that is running, or NoActor
    event,      \* the event most recently delivered to the actor
    source,     \* the state node that was active when `event` was delivered
    pending,    \* ids of the promises that were started and have not settled
    executed,   \* the action implementations run while `event` was processed
    phase,      \* observer: "run", or the stage of a two-cycle comparison
    script,     \* observer: the collaborator responses of the first cycle
    mark        \* observer: <<state, context>> at the end of the first cycle

vars ==
    <<state, context, status, invoked, event, source, pending, executed,
      phase, script, mark>>

-----------------------------------------------------------------------------
(* Bounds of the model *)

\* longest directory listing a scan resolves with
MaxScanned == 2

\* longest list inside a result of the permission check or the evaluation
MaxLen == 1

Paths == {"A", "B"}

SeqsUpTo(n) == UNION {[1..k -> Paths] : k \in 0..n}

JsArray(s) == [items |-> s]

\* the caller's input to the machine
Inputs ==
    { [basePath |-> "/media", destinationPath |-> "/archive"],
      [basePath |-> "/mnt/in", destinationPath |-> "/mnt/out"] }

\* what scanDirectories can resolve with
ScanOutputs == {JsArray(s) : s \in SeqsUpTo(MaxScanned)}

\* what checkFilePermissions can resolve with
CheckOutputs ==
    [dirsToEvaluate : SeqsUpTo(MaxLen), dirsToReport : SeqsUpTo(MaxLen)]

\* what checkFilePermissions can reject with
CheckErrors == [dirsToReport : SeqsUpTo(MaxLen)]

\* what evaluateFiles can resolve with
EvaluateOutputs == [dirsToMove : SeqsUpTo(MaxLen)]

\* what a collaborator whose payload the machine does not read can settle
\* with: an error object, or an object that happens to carry list fields
AnyPayloads ==
    { [message |-> "EIO"],
      [dirsToReport |-> <<"A">>, dirsToEvaluate |-> <<"A">>,
       dirsToMove |-> <<"A">>, items |-> <<"A">>] }

-----------------------------------------------------------------------------
(* The machine *)

StateNames ==
    { "idle", "Scanning", "CheckingFilePermissions", "ReportingErrors",
      "EvaluatingFiles", "MovingFiles" }

acceptedFileTypes ==
    << "mp4", "mkv", "avi", "mov", "m4v", "mpg", "mpeg", "wmv", "flv",
       "ts", "mts" >>

initialContext(input) ==
    [ basePath           |-> input.basePath,
      destinationPath    |-> input.destinationPath,
      directoriesToCheck |-> <<>>,
      dirsToEvaluate     |-> <<>>,
      dirsToMove         |-> <<>>,
      filesToEmail       |-> <<>>,
      dirsToReport       |-> <<>>,
      processedFiles     |-> <<>>,
      acceptedFileTypes  |-> acceptedFileTypes ]

NoActor == [id |-> "none"]

\* invoke with the move also given the directories that were evaluated
invoke_moveEvaluated(s, ctx) ==
    CASE s = "Scanning" ->
           [id |-> "scanLibrary", input |-> [basePath |-> ctx.basePath]]
      [] s = "CheckingFilePermissions" ->
           [id |-> "checkFilePermissions",
            input |-> [directoriesToCheck |-> ctx.directoriesToCheck]]
      [] s = "EvaluatingFiles" ->
           [id |-> "evaluatingFiles",
            input |-> [dirsToEvaluate |-> ctx.dirsToEvaluate,
                       acceptedFileTypes |-> ctx.acceptedFileTypes]]
      [] s = "MovingFiles" ->
           [id |-> "moveFiles",
            input |-> [dirsToMove |-> ctx.dirsToMove,
                       dirsToEvaluate |-> ctx.dirsToEvaluate,
                       destinationPath |-> ctx.destinationPath]]
      [] OTHER -> NoActor

\* invoke with the move not started when there is nothing to move
invoke_skipEmptyMove(s, ctx) ==
    CASE s = "Scanning" ->
           [id |-> "scanLibrary", input |-> [basePath |-> ctx.basePath]]
      [] s = "CheckingFilePermissions" ->
           [id |-> "checkFilePermissions",
            input |-> [directoriesToCheck |-> ctx.directoriesToCheck]]
      [] s = "EvaluatingFiles" ->
           [id |-> "evaluatingFiles",
            input |-> [dirsToEvaluate |-> ctx.dirsToEvaluate,
                       acceptedFileTypes |-> ctx.acceptedFileTypes]]
      [] s = "MovingFiles" /\ ctx.dirsToMove # <<>> ->
           [id |-> "moveFiles",
            input |-> [dirsToMove |-> ctx.dirsToMove,
                       destinationPath |-> ctx.destinationPath]]
      [] OTHER -> NoActor

\* the invoke block of a state node: the actor it starts on entry
invoke(s, ctx) ==
    CASE s = "Scanning" ->
           [id |-> "scanLibrary", input |-> [basePath |-> ctx.basePath]]
      [] s = "CheckingFilePermissions" ->
           [id |-> "checkFilePermissions",
            input |-> [directoriesToCheck |-> ctx.directoriesToCheck]]
      [] s = "EvaluatingFiles" ->
           [id |-> "evaluatingFiles",
            input |-> [dirsToEvaluate |-> ctx.dirsToEvaluate,
                       acceptedFileTypes |-> ctx.acceptedFileTypes]]
      [] s = "MovingFiles" ->
           [id |-> "moveFiles",
            input |-> [dirsToMove |-> ctx.dirsToMove,
                       destinationPath |-> ctx.destinationPath]]
      [] OTHER -> NoActor

initial == "idle"

ActorIds == {"scanLibrary", "checkFilePermissions", "evaluatingFiles", "moveFiles"}

\* the promise started with the actor that entering state node s invokes
Started(s, ctx) ==
    IF invoke(s, ctx) = NoActor THEN {} ELSE {invoke(s, ctx).id}

\* the types of the events that report the settlement of an invoked actor
SettlementTypes ==
    [id \in ActorIds |->
        {"xstate.done.actor." \o id, "xstate.error.actor." \o id}]

\* the promise whose settlement the event reports
Settled(ev) ==
    {id \in ActorIds : ev.type \in SettlementTypes[id]}

\* the context fields that the transition selected by the event assigns
Assigned(ev) ==
    CASE ev.type = "xstate.done.actor.scanLibrary" ->
           {"directoriesToCheck"}
      [] ev.type = "xstate.done.actor.checkFilePermissions" ->
           {"dirsToEvaluate", "dirsToReport"}
      [] ev.type = "xstate.error.actor.checkFilePermissions" ->
           {"dirsToReport"}
      [] ev.type = "xstate.done.actor.evaluatingFiles" ->
           {"dirsToMove"}
      [] OTHER -> {}

\* the entry actions of a state node
entry(s) ==
    IF s = "ReportingErrors" THEN <<"emailErrors">> ELSE <<>>

\* the names of the actions the machine is given an implementation for
actions == {}

Implemented(name) == name \in actions

\* The actions of a step are run in order against the context the
\* assignments have produced; a name without an implementation runs nothing.
Execute(names, ctx) ==
    LET run == SelectSeq(names, Implemented)
    IN  [i \in 1..Len(run) |-> [type |-> run[i], context |-> ctx]]

\* The observer of a two-cycle comparison.  In phase "run" it does nothing.
\* In phase "free" the machine runs until some START_SCAN taken in idle is
\* chosen as the start of the first cycle.  In phase "first" the settlement
\* events delivered are written to the script, and the return to idle ends
\* the cycle and marks its result.  In phase "second" the collaborators may
\* only give the responses of the script, in order, and the return to idle
\* ends the comparison.  External events that select no transition are left
\* out of the observed runs.
Observe ==
    CASE phase = "run" ->
           UNCHANGED <<phase, script, mark>>
      [] phase = "free" ->
           /\ state' # state \/ Settled(event') # {}
           /\ IF state = "idle" /\ state' = "Scanning"
                THEN phase' \in {"free", "first"}
                ELSE phase' = "free"
           /\ UNCHANGED <<script, mark>>
      [] phase = "first" ->
           /\ state' # state \/ Settled(event') # {}
           /\ script' = IF Settled(event') # {}
                           THEN Append(script, event') ELSE script
           /\ phase' = IF state' = "idle" THEN "second" ELSE "first"
           /\ mark' = IF state' = "idle" THEN <<state', context'>> ELSE mark
      [] phase = "second" ->
           /\ state' # state \/ Settled(event') # {}
           /\ Settled(event') # {} =>
                /\ script # <<>>
                /\ event'.type = Head(script).type
                /\ event' = Head(script)
           /\ script' = IF Settled(event') # {} THEN Tail(script) ELSE script
           /\ phase' = IF state # "idle" /\ state' = "idle"
                          THEN "done" ELSE "second"
           /\ mark' = mark
      [] OTHER -> FALSE

Init ==
    /\ state = initial
    /\ \E input \in Inputs : context = initialContext(input)
    /\ status = "active"
    /\ invoked = invoke(initial, context)
    /\ event = [type |-> "xstate.init"]
    /\ source = initial
    /\ pending = Started(initial, context)
    /\ executed = Execute(entry(initial), context)
    /\ phase = "run"
    /\ script = <<>>
    /\ mark = <<>>

\* the machine as created for a two-cycle comparison
InitReplay ==
    /\ state = initial
    /\ \E input \in Inputs : context = initialContext(input)
    /\ status = "active"
    /\ invoked = invoke(initial, context)
    /\ event = [type |-> "xstate.init"]
    /\ source = initial
    /\ pending = Started(initial, context)
    /\ executed = Execute(entry(initial), context)
    /\ phase = "free"
    /\ script = <<>>
    /\ mark = <<>>

\* A transition of the machine: the assignments of its actions are applied
\* to the context, the source state is left (its invoked actor is stopped)
\* and the target is entered (its invoke block, read against the updated
\* context, is started).
Take(target, ctx) ==
    /\ source' = state
    /\ state' = target
    /\ context' = ctx
    /\ invoked' = invoke(target, ctx)
    /\ status' = status
    /\ pending' = (pending \ Settled(event')) \cup Started(target, ctx)
    /\ executed' = Execute(entry(target), ctx)
    /\ Observe

\* The event is delivered and selects no transition.
Ignore ==
    /\ source' = state
    /\ executed' = <<>>
    /\ UNCHANGED <<state, context, status, invoked, pending>>
    /\ Observe


None == "none"

\* states.idle.on
idle_on(type) ==
    IF type = "START_SCAN" THEN "Scanning" ELSE None

\* ReportingErrors also accepting START_SCAN, to scan again at once
ReportingErrors_on_rescan(type) ==
    CASE type = "RESTART" -> "idle"
      [] type = "START_SCAN" -> "Scanning"
      [] OTHER -> None

\* ReportingErrors with a RESTART that starts the next scan itself
ReportingErrors_on_restartScans(type) ==
    IF type = "RESTART" THEN "Scanning" ELSE None

\* states.ReportingErrors.on
ReportingErrors_on(type) ==
    IF type = "RESTART" THEN "idle" ELSE None

\* `on` with a RESTART handler added to Scanning, to give up a scan
on_cancelScan(s, type) ==
    CASE s = "idle" -> idle_on(type)
      [] s = "ReportingErrors" -> ReportingErrors_on(type)
      [] s = "Scanning" /\ type = "RESTART" -> "idle"
      [] OTHER -> None

\* `on` with a RESTART handler added to MovingFiles
on_restartWhileMoving(s, type) ==
    CASE s = "idle" -> idle_on(type)
      [] s = "ReportingErrors" -> ReportingErrors_on(type)
      [] s = "MovingFiles" /\ type = "RESTART" -> "idle"
      [] OTHER -> None

\* the `on` table of a state node: the target of an external event, or None
on(s, type) ==
    CASE s = "idle" -> idle_on(type)
      [] s = "ReportingErrors" -> ReportingErrors_on(type)
      [] OTHER -> None

\* Send with START_SCAN refused while earlier failures are still recorded
Send_guardedStart(type) ==
    /\ event' = [type |-> type]
    /\ IF /\ status = "active"
          /\ on(state, type) # None
          /\ ~(type = "START_SCAN" /\ context.dirsToReport # <<>>)
         THEN Take(on(state, type), context)
         ELSE Ignore

\* An external event is sent to the actor.
Send(type) ==
    /\ event' = [type |-> type]
    /\ IF status = "active" /\ on(state, type) # None
         THEN Take(on(state, type), context)
         ELSE Ignore

START_SCAN == Send("START_SCAN")

RESTART == Send("RESTART")

\* The invoked actor `id` is running in the state that invoked it.
Running(s, id) ==
    /\ status = "active"
    /\ state = s
    /\ invoked.id = id
    /\ id \in pending

\* the assignment appending the listing to the one already in the context
Scanning_onDone_append(ctx, ev) ==
    [ctx EXCEPT !.directoriesToCheck = ctx.directoriesToCheck \o ev.output.items]

\* states.Scanning.invoke.onDone: assign
Scanning_onDone_assign(ctx, ev) ==
    [ctx EXCEPT !.directoriesToCheck = ev.output.items]

Scanning_onDone ==
    /\ Running("Scanning", "scanLibrary")
    /\ \E output \in ScanOutputs :
         /\ event' = [type |-> "xstate.done.actor.scanLibrary",
                      output |-> output]
         /\ Take("CheckingFilePermissions",
                 Scanning_onDone_assign(context, event'))

\* onError taking dirsToReport from the failure, as the permission check does
Scanning_onError_assigning ==
    /\ Running("Scanning", "scanLibrary")
    /\ \E error \in AnyPayloads :
         /\ event' = [type |-> "xstate.error.actor.scanLibrary",
                      error |-> error]
         /\ Take("ReportingErrors",
                 IF "dirsToReport" \in DOMAIN error
                   THEN [context EXCEPT !.dirsToReport = error.dirsToReport]
                   ELSE context)

Scanning_onError ==
    /\ Running("Scanning", "scanLibrary")
    /\ \E error \in AnyPayloads :
         /\ event' = [type |-> "xstate.error.actor.scanLibrary",
                      error |-> error]
         /\ Take("ReportingErrors", context)

\* the assignment without the dirsToReport of the result
CheckingFilePermissions_onDone_evaluateOnly(ctx, ev) ==
    [ctx EXCEPT !.dirsToEvaluate = ev.output.dirsToEvaluate]

\* states.CheckingFilePermissions.invoke.onDone: assign
CheckingFilePermissions_onDone_assign(ctx, ev) ==
    [ctx EXCEPT !.dirsToEvaluate = ev.output.dirsToEvaluate,
                !.dirsToReport = ev.output.dirsToReport]

CheckingFilePermissions_onDone ==
    /\ Running("CheckingFilePermissions", "checkFilePermissions")
    /\ \E output \in CheckOutputs :
         /\ event' = [type |-> "xstate.done.actor.checkFilePermissions",
                      output |-> output]
         /\ Take("EvaluatingFiles",
                 CheckingFilePermissions_onDone_assign(context, event'))

\* the assignment also emptying dirsToEvaluate on a failure
CheckingFilePermissions_onError_clearing(ctx, ev) ==
    [ctx EXCEPT !.dirsToReport = ev.error.dirsToReport,
                !.dirsToEvaluate = <<>>]

\* the assignment adding the failed directories to those already reported
CheckingFilePermissions_onError_accumulate(ctx, ev) ==
    [ctx EXCEPT !.dirsToReport = ctx.dirsToReport \o ev.error.dirsToReport]

\* states.CheckingFilePermissions.invoke.onError: assign
CheckingFilePermissions_onError_assign(ctx, ev) ==
    [ctx EXCEPT !.dirsToReport = ev.error.dirsToReport]

\* onError scanning again instead of reporting
CheckingFilePermissions_onError_rescan ==
    /\ Running("CheckingFilePermissions", "checkFilePermissions")
    /\ \E error \in CheckErrors :
         /\ event' = [type |-> "xstate.error.actor.checkFilePermissions",
                      error |-> error]
         /\ Take("Scanning",
                 CheckingFilePermissions_onError_assign(context, event'))

CheckingFilePermissions_onError ==
    /\ Running("CheckingFilePermissions", "checkFilePermissions")
    /\ \E error \in CheckErrors :
         /\ event' = [type |-> "xstate.error.actor.checkFilePermissions",
                      error |-> error]
         /\ Take("ReportingErrors",
                 CheckingFilePermissions_onError_assign(context, event'))

\* states.EvaluatingFiles.invoke.onDone: assign
EvaluatingFiles_onDone_assign(ctx, ev) ==
    [ctx EXCEPT !.dirsToMove = ev.output.dirsToMove]

\* onDone going straight back to idle when there is nothing to move
EvaluatingFiles_onDone_skipEmpty ==
    /\ Running("EvaluatingFiles", "evaluatingFiles")
    /\ \E output \in EvaluateOutputs :
         /\ event' = [type |-> "xstate.done.actor.evaluatingFiles",
                      output |-> output]
         /\ Take(IF output.dirsToMove = <<>> THEN "idle" ELSE "MovingFiles",
                 EvaluatingFiles_onDone_assign(context, event'))

EvaluatingFiles_onDone ==
    /\ Running("EvaluatingFiles", "evaluatingFiles")
    /\ \E output \in EvaluateOutputs :
         /\ event' = [type |-> "xstate.done.actor.evaluatingFiles",
                      output |-> output]
         /\ Take("MovingFiles",
                 EvaluatingFiles_onDone_assign(context, event'))

\* the failure of the evaluation routed to ReportingErrors like the others
EvaluatingFiles_onError_reporting ==
    /\ Running("EvaluatingFiles", "evaluatingFiles")
    /\ \E error \in AnyPayloads :
         /\ event' = [type |-> "xstate.error.actor.evaluatingFiles",
                      error |-> error]
         /\ Take("ReportingErrors", context)

\* states.EvaluatingFiles.invoke declares no onError: the error event of the
\* invoked actor selects no transition, and the actor running the machine
\* ends in status "error" with its state and context as they were.
EvaluatingFiles_unhandledError ==
    /\ Running("EvaluatingFiles", "evaluatingFiles")
    /\ \E error \in AnyPayloads :
         event' = [type |-> "xstate.error.actor.evaluatingFiles",
                   error |-> error]
    /\ status' = "error"
    /\ invoked' = NoActor
    /\ source' = state
    /\ pending' = pending \ Settled(event')
    /\ executed' = <<>>
    /\ UNCHANGED <<state, context>>
    /\ Observe

\* onDone keeping the audit trail of the files that were moved
MovingFiles_onDone_audit ==
    /\ Running("MovingFiles", "moveFiles")
    /\ \E output \in AnyPayloads :
         /\ event' = [type |-> "xstate.done.actor.moveFiles",
                      output |-> output]
         /\ Take("idle",
                 [context EXCEPT !.processedFiles = @ \o context.dirsToMove])

\* onDone emptying dirsToMove once the files are moved
MovingFiles_onDone_clearing ==
    /\ Running("MovingFiles", "moveFiles")
    /\ \E output \in AnyPayloads :
         /\ event' = [type |-> "xstate.done.actor.moveFiles",
                      output |-> output]
         /\ Take("idle", [context EXCEPT !.dirsToMove = <<>>])

MovingFiles_onDone ==
    /\ Running("MovingFiles", "moveFiles")
    /\ \E output \in AnyPayloads :
         /\ event' = [type |-> "xstate.done.actor.moveFiles",
                      output |-> output]
         /\ Take("idle", context)

MovingFiles_onError ==
    /\ Running("MovingFiles", "moveFiles")
    /\ \E error \in AnyPayloads :
         /\ event' = [type |-> "xstate.error.actor.moveFiles",
                      error |-> error]
         /\ Take("ReportingErrors", context)

Next ==
    \/ START_SCAN
    \/ RESTART
    \/ Scanning_onDone
    \/ Scanning_onError
    \/ CheckingFilePermissions_onDone
    \/ CheckingFilePermissions_onError
    \/ EvaluatingFiles_onDone
    \/ EvaluatingFiles_unhandledError
    \/ MovingFiles_onDone
    \/ MovingFiles_onError

Spec == Init /\ [][Next]_vars

\* The machine with collaborators of which the evaluation never fails and
\* every started promise settles in the end.
NextLive ==
    \/ START_SCAN
    \/ RESTART
    \/ Scanning_onDone
    \/ Scanning_onError
    \/ CheckingFilePermissions_onDone
    \/ CheckingFilePermissions_onError
    \/ EvaluatingFiles_onDone
    \/ MovingFiles_onDone
    \/ MovingFiles_onError

\* the settlement of the promise that is running
Settle ==
    \/ Scanning_onDone
    \/ Scanning_onError
    \/ CheckingFilePermissions_onDone
    \/ CheckingFilePermissions_onError
    \/ EvaluatingFiles_onDone
    \/ MovingFiles_onDone
    \/ MovingFiles_onError

EffectsSettle == WF_vars(Settle)

\* one caller's input: no transition and no guard reads the two paths
InitLive == Init /\ context.basePath = "/media"

SpecLive == InitLive /\ [][NextLive]_vars /\ EffectsSettle

\* the same machine under the observer of a two-cycle comparison
SpecReplay == InitReplay /\ [][Next]_vars

-----------------------------------------------------------------------------
(* Properties *)

\* The context after an event that changed nothing in it.
SameContext == context' = context

\* C1: an external event that the active state does not handle (START_SCAN
\* outside idle, RESTART outside ReportingErrors) leaves the state and every
\* context field as they were and does not put the actor in error.
C1_NoOpLaw ==
    [][ ( \/ (event'.type = "START_SCAN" /\ state # "idle")
          \/ (event'.type = "RESTART" /\ state # "ReportingErrors") )
        => (state' = state /\ SameContext /\ status' = status) ]_vars

\* RESTART was delivered in MovingFiles, with files waiting to be moved, and
\* the machine is still there.
C1_Witness ==
    /\ source = "MovingFiles"
    /\ event.type = "RESTART"
    /\ state = "MovingFiles"
    /\ status = "active"
    /\ invoked.id = "moveFiles"
    /\ context.dirsToMove # <<>>

\* C2: START_SCAN delivered in idle moves the machine to Scanning whatever
\* the context holds, and changes no context field.
C2_StartScanFromIdle ==
    [][ (state = "idle" /\ event'.type = "START_SCAN")
        => (state' = "Scanning" /\ SameContext) ]_vars

\* A scan was started from idle with the lists of an earlier cycle still in
\* the context.
C2_Witness ==
    /\ source = "idle"
    /\ event.type = "START_SCAN"
    /\ state = "Scanning"
    /\ context.directoriesToCheck # <<>>
    /\ context.dirsToEvaluate # <<>>
    /\ context.dirsToReport # <<>>
    /\ context.dirsToMove # <<>>

\* C3: when the scan resolves with r in Scanning, the machine enters
\* CheckingFilePermissions with directoriesToCheck = r and every other
\* context field as it was.
C3_ScanDone ==
    [][ (state = "Scanning" /\ event'.type = "xstate.done.actor.scanLibrary")
        => /\ state' = "CheckingFilePermissions"
           /\ context' =
                [context EXCEPT !.directoriesToCheck = event'.output.items] ]_vars

\* A scan of a later cycle resolved with the empty listing.
C3_Witness ==
    /\ source = "Scanning"
    /\ event.type = "xstate.done.actor.scanLibrary"
    /\ event.output.items = <<>>
    /\ state = "CheckingFilePermissions"
    /\ context.directoriesToCheck = <<>>
    /\ invoked.input.directoriesToCheck = <<>>
    /\ context.dirsToEvaluate # <<>>

\* C4: when the scan rejects in Scanning, the machine enters ReportingErrors
\* and the whole context is what it was before the rejection.
C4_ScanError ==
    [][ (state = "Scanning" /\ event'.type = "xstate.error.actor.scanLibrary")
        => (state' = "ReportingErrors" /\ SameContext) ]_vars

\* The scan rejected with a payload that carries a dirsToReport, and the
\* context holds another one.
C4_Witness ==
    /\ source = "Scanning"
    /\ event.type = "xstate.error.actor.scanLibrary"
    /\ "dirsToReport" \in DOMAIN event.error
    /\ state = "ReportingErrors"
    /\ context.dirsToReport # event.error.dirsToReport

\* C5: when the permission check resolves with {dirsToEvaluate: e,
\* dirsToReport: r} in CheckingFilePermissions, the machine enters
\* EvaluatingFiles with dirsToEvaluate = e, dirsToReport = r and every other
\* context field as it was.
C5_CheckDone ==
    [][ ( /\ state = "CheckingFilePermissions"
          /\ event'.type = "xstate.done.actor.checkFilePermissions" )
        => /\ state' = "EvaluatingFiles"
           /\ context' =
                [context EXCEPT !.dirsToEvaluate = event'.output.dirsToEvaluate,
                                !.dirsToReport = event'.output.dirsToReport] ]_vars

\* The check resolved with {dirsToEvaluate: ["A"], dirsToReport: ["B"]}.
C5_Witness ==
    /\ source = "CheckingFilePermissions"
    /\ event.type = "xstate.done.actor.checkFilePermissions"
    /\ event.output.dirsToEvaluate = <<"A">>
    /\ event.output.dirsToReport = <<"B">>
    /\ state = "EvaluatingFiles"
    /\ context.dirsToEvaluate = <<"A">>
    /\ context.dirsToReport = <<"B">>

\* C6: when the permission check rejects with {dirsToReport: r} in
\* CheckingFilePermissions, the machine enters ReportingErrors with
\* dirsToReport = r; dirsToEvaluate and every other context field keep their
\* values.
C6_CheckError ==
    [][ ( /\ state = "CheckingFilePermissions"
          /\ event'.type = "xstate.error.actor.checkFilePermissions" )
        => /\ state' = "ReportingErrors"
           /\ context' =
                [context EXCEPT !.dirsToReport = event'.error.dirsToReport] ]_vars

\* The check rejected with {dirsToReport: ["B"]} while the context held a
\* dirsToEvaluate of an earlier cycle.
C6_Witness ==
    /\ source = "CheckingFilePermissions"
    /\ event.type = "xstate.error.actor.checkFilePermissions"
    /\ event.error.dirsToReport = <<"B">>
    /\ state = "ReportingErrors"
    /\ context.dirsToReport = <<"B">>
    /\ context.dirsToEvaluate = <<"A">>

\* C7: when the evaluation resolves with {dirsToMove: m} in EvaluatingFiles,
\* the machine enters MovingFiles with dirsToMove = m, the empty m included,
\* and every other context field as it was.
C7_EvaluateDone ==
    [][ ( /\ state = "EvaluatingFiles"
          /\ event'.type = "xstate.done.actor.evaluatingFiles" )
        => /\ state' = "MovingFiles"
           /\ context' =
                [context EXCEPT !.dirsToMove = event'.output.dirsToMove] ]_vars

\* The evaluation of some directories resolved with nothing to move.
C7_Witness ==
    /\ source = "EvaluatingFiles"
    /\ event.type = "xstate.done.actor.evaluatingFiles"
    /\ event.output.dirsToMove = <<>>
    /\ state = "MovingFiles"
    /\ context.dirsToMove = <<>>
    /\ context.dirsToEvaluate # <<>>

\* C8: when the move settles in MovingFiles, the machine goes to idle if it
\* resolved and to ReportingErrors if it rejected, and no context field
\* changes either way.
C8_MoveSettled ==
    [][ /\ (state = "MovingFiles" /\ event'.type = "xstate.done.actor.moveFiles")
           => (state' = "idle" /\ SameContext)
        /\ (state = "MovingFiles" /\ event'.type = "xstate.error.actor.moveFiles")
           => (state' = "ReportingErrors" /\ SameContext) ]_vars

\* A move of some files resolved and the machine is back in idle with the
\* list still in the context.
C8_Witness ==
    /\ source = "MovingFiles"
    /\ event.type = "xstate.done.actor.moveFiles"
    /\ state = "idle"
    /\ context.dirsToMove # <<>>

\* C9: RESTART delivered in ReportingErrors moves the machine to idle and
\* resets no context field; a START_SCAN delivered next moves it to Scanning
\* and starts the scan of a new cycle.
C9_Restart ==
    [][ /\ (state = "ReportingErrors" /\ event'.type = "RESTART")
           => (state' = "idle" /\ SameContext)
        /\ ( /\ source = "ReportingErrors" /\ event.type = "RESTART"
             /\ event'.type = "START_SCAN" )
           => /\ state' = "Scanning"
              /\ SameContext
              /\ invoked' = [id |-> "scanLibrary",
                             input |-> [basePath |-> context.basePath]] ]_vars

\* RESTART took the machine from ReportingErrors to idle with the reported
\* directories still in the context.
C9_Witness ==
    /\ source = "ReportingErrors"
    /\ event.type = "RESTART"
    /\ state = "idle"
    /\ context.dirsToReport # <<>>

\* C10: once in ReportingErrors the machine stays there with its context
\* unchanged until RESTART is delivered: no other event and no completion of
\* an effect moves it, and no effect is running there.
C10_NoAutoRetry ==
    [][ (state = "ReportingErrors" /\ event'.type # "RESTART")
        => /\ state' = "ReportingErrors"
           /\ SameContext
           /\ invoked = NoActor
           /\ invoked' = NoActor ]_vars

\* START_SCAN was delivered in ReportingErrors and the machine is still
\* there.
C10_Witness ==
    /\ source = "ReportingErrors"
    /\ event.type = "START_SCAN"
    /\ state = "ReportingErrors"
    /\ invoked = NoActor

\* C11: from idle in any reachable context, a cycle (START_SCAN through to
\* idle, by way of RESTART after a failure) followed by a second cycle in
\* which every collaborator responds as in the first ends in the state and
\* the complete context in which the first one ended.
C11_Idempotent ==
    phase = "done" => (script = <<>> /\ <<state, context>> = mark)

\* Two successful cycles with the same non-empty responses have been run
\* and the second ended where the first did.
C11_Witness ==
    /\ phase = "done"
    /\ state = "idle"
    /\ source = "MovingFiles"
    /\ context.directoriesToCheck = <<"A", "B">>
    /\ context.dirsToEvaluate = <<"A">>
    /\ context.dirsToReport = <<"B">>
    /\ context.dirsToMove = <<"A">>
    /\ mark = <<state, context>>

\* C12: a failure of the evaluation in EvaluatingFiles is fatal and is not
\* swallowed: the machine takes no transition, the context is unchanged, the
\* actor is in error, and from then on no event moves it to another state.
C12_EvaluateFailureFatal ==
    [][ /\ ( /\ state = "EvaluatingFiles"
             /\ event'.type = "xstate.error.actor.evaluatingFiles" )
           => (state' = "EvaluatingFiles" /\ SameContext /\ status' = "error")
        /\ status = "error"
           => (state' = state /\ SameContext /\ status' = "error") ]_vars

\* After the failure of the evaluation a RESTART was delivered and the
\* machine is still in EvaluatingFiles, in error.
C12_Witness ==
    /\ status = "error"
    /\ state = "EvaluatingFiles"
    /\ source = "EvaluatingFiles"
    /\ event.type = "RESTART"
    /\ invoked = NoActor

\* C13 as claimed: a report of one or more directories by the permission
\* check, in its rejection or in its resolved result, brings the cycle to
\* ReportingErrors with exactly those directories in dirsToReport before the
\* machine is next in idle.  A cycle is in MovingFiles only after its check
\* has resolved, with the report of that result in dirsToReport, so the
\* claim forbids the step from MovingFiles to idle while dirsToReport is
\* not empty.
C13_ReportAlwaysSurfaced ==
    [][ /\ ( /\ state = "CheckingFilePermissions"
             /\ event'.type = "xstate.error.actor.checkFilePermissions"
             /\ event'.error.dirsToReport # <<>> )
           => /\ state' = "ReportingErrors"
              /\ context'.dirsToReport = event'.error.dirsToReport
        /\ (state = "MovingFiles" /\ context.dirsToReport # <<>>)
           => state' # "idle" ]_vars

\* C13, amended: a rejection of the permission check with {dirsToReport: r}
\* brings the machine to ReportingErrors at once, with dirsToReport = r, and
\* only RESTART takes it from there to idle, with the report kept.  A report
\* inside a resolved result is stored in dirsToReport and the machine goes
\* on to EvaluatingFiles and MovingFiles with it.
C13_RejectionSurfaced ==
    [][ /\ ( /\ state = "CheckingFilePermissions"
             /\ event'.type = "xstate.error.actor.checkFilePermissions" )
           => /\ state' = "ReportingErrors"
              /\ context'.dirsToReport = event'.error.dirsToReport
        /\ (state = "ReportingErrors" /\ state' # "ReportingErrors")
           => /\ event'.type = "RESTART"
              /\ state' = "idle"
              /\ context'.dirsToReport = context.dirsToReport
        /\ ( /\ state = "CheckingFilePermissions"
             /\ event'.type = "xstate.done.actor.checkFilePermissions" )
           => /\ state' = "EvaluatingFiles"
              /\ context'.dirsToReport = event'.output.dirsToReport
        /\ state \in {"EvaluatingFiles", "MovingFiles"}
           => context'.dirsToReport = context.dirsToReport ]_vars

\* The check rejected with {dirsToReport: ["A"]} and the machine is in
\* ReportingErrors with that report, no effect running.
C13_Witness ==
    /\ source = "CheckingFilePermissions"
    /\ event.type = "xstate.error.actor.checkFilePermissions"
    /\ event.error.dirsToReport = <<"A">>
    /\ state = "ReportingErrors"
    /\ context.dirsToReport = <<"A">>
    /\ pending = {}

\* C14: every entry into ReportingErrors runs the emailErrors action exactly
\* once, against the context the entering transition has produced, and the
\* action runs in no other step.
C14_NotifyOnEntry ==
    [][ IF state' = "ReportingErrors" /\ state # "ReportingErrors"
          THEN executed' = <<[type |-> "emailErrors", context |-> context']>>
          ELSE executed' = <<>> ]_vars

\* C15: when every started effect settles and the evaluation does not fail,
\* a cycle started by START_SCAN in idle reaches idle or ReportingErrors; and
\* responses that are all empty take the cycle through Scanning,
\* CheckingFilePermissions, EvaluatingFiles and MovingFiles to idle.
C15_CycleEnds ==
    /\ [](state = "Scanning" => <>(state \in {"idle", "ReportingErrors"}))
    /\ [][ /\ ( /\ state = "Scanning"
                /\ event'.type = "xstate.done.actor.scanLibrary"
                /\ event'.output.items = <<>> )
              => state' = "CheckingFilePermissions"
           /\ ( /\ state = "CheckingFilePermissions"
                /\ event'.type = "xstate.done.actor.checkFilePermissions"
                /\ event'.output.dirsToEvaluate = <<>>
                /\ event'.output.dirsToReport = <<>> )
              => state' = "EvaluatingFiles"
           /\ ( /\ state = "EvaluatingFiles"
                /\ event'.type = "xstate.done.actor.evaluatingFiles"
                /\ event'.output.dirsToMove = <<>> )
              => state' = "MovingFiles"
           /\ (state = "MovingFiles" /\ event'.type = "xstate.done.actor.moveFiles")
              => state' = "idle" ]_vars

\* A first cycle in which every collaborator returned the empty sequence is
\* back in idle after the move.
C15_Witness ==
    /\ source = "MovingFiles"
    /\ event.type = "xstate.done.actor.moveFiles"
    /\ state = "idle"
    /\ context.directoriesToCheck = <<>>
    /\ context.dirsToEvaluate = <<>>
    /\ context.dirsToReport = <<>>
    /\ context.dirsToMove = <<>>
    /\ pending = {}

\* The effect each state is said to invoke; none for idle and ReportingErrors.
EffectsOf(s) ==
    CASE s = "Scanning" -> {"scanLibrary"}
      [] s = "CheckingFilePermissions" -> {"checkFilePermissions"}
      [] s = "EvaluatingFiles" -> {"evaluatingFiles"}
      [] s = "MovingFiles" -> {"moveFiles"}
      [] OTHER -> {}

\* C16: the machine is always in one of the six states and at most one
\* effect is in flight: an effect is pending only in the state that invokes
\* it, exactly one is started on each entry into such a state, none without
\* an entry, and none is pending in idle or ReportingErrors.
C16_OneEffectInFlight ==
    /\ [] /\ state \in { "idle", "Scanning", "CheckingFilePermissions",
                         "EvaluatingFiles", "MovingFiles", "ReportingErrors" }
          /\ Cardinality(pending) <= 1
          /\ pending \subseteq EffectsOf(state)
          /\ invoked = NoActor <=> pending = {}
          /\ invoked # NoActor => pending = {invoked.id}
          /\ status = "active" => pending = EffectsOf(state)
    /\ [][ /\ state' # state
              => /\ pending' = EffectsOf(state')
                 /\ pending \cap pending' = {}
           /\ state' = state => pending' \subseteq pending ]_vars

\* The move has been started on entry into MovingFiles, with the list and
\* the destination of the context, and is the one effect in flight.
C16_Witness ==
    /\ source = "EvaluatingFiles"
    /\ state = "MovingFiles"
    /\ pending = {"moveFiles"}
    /\ invoked = [id |-> "moveFiles",
                  input |-> [dirsToMove |-> context.dirsToMove,
                             destinationPath |-> context.destinationPath]]
    /\ context.dirsToMove # <<>>

\* C17: each started effect drives at most one transition.  A settlement is
\* delivered as one event, done or error, for the promise that is pending in
\* the state that launched it, and with that event the promise is gone; a
\* state that has launched an effect is left only by that settlement, so no
\* result arrives after its launching state has been left.
C17_OneTransitionPerEffect ==
    [][ /\ Settled(event') # {}
           => /\ Settled(event') = pending
              /\ Settled(event') = EffectsOf(state)
              /\ Settled(event') = {invoked.id}
              /\ Settled(event') \cap pending' = {}
              /\ state' # state \/ status' = "error"
        /\ (EffectsOf(state) # {} /\ state' # state)
           => Settled(event') = EffectsOf(state)
        /\ (Settled(event') # {} /\ EffectsOf(state) # Settled(event'))
           => (state' = state /\ SameContext) ]_vars

\* The rejection of the scan has driven the transition to ReportingErrors
\* and no promise is left.
C17_Witness ==
    /\ source = "Scanning"
    /\ event.type = "xstate.error.actor.scanLibrary"
    /\ state = "ReportingErrors"
    /\ pending = {}
    /\ invoked = NoActor

\* C18: the state changes only along the edges idle -> Scanning, Scanning ->
\* CheckingFilePermissions or ReportingErrors, CheckingFilePermissions ->
\* EvaluatingFiles or ReportingErrors, EvaluatingFiles -> MovingFiles,
\* MovingFiles -> idle or ReportingErrors, ReportingErrors -> idle.
C18_Edges ==
    [][ state' # state =>
          <<state, state'>> \in
            { <<"idle", "Scanning">>,
              <<"Scanning", "CheckingFilePermissions">>,
              <<"Scanning", "ReportingErrors">>,
              <<"CheckingFilePermissions", "EvaluatingFiles">>,
              <<"CheckingFilePermissions", "ReportingErrors">>,
              <<"EvaluatingFiles", "MovingFiles">>,
              <<"MovingFiles", "idle">>,
              <<"MovingFiles", "ReportingErrors">>,
              <<"ReportingErrors", "idle">> } ]_vars

\* MovingFiles has been entered, from EvaluatingFiles, on the result of the
\* evaluation.
C18_Witness ==
    /\ source = "EvaluatingFiles"
    /\ event.type = "xstate.done.actor.evaluatingFiles"
    /\ state = "MovingFiles"
    /\ status = "active"

\* the fields no transition assigns
Immutable == {"basePath", "destinationPath", "acceptedFileTypes"}

\* the context fields a state reads on entry: the input of its invoke, and
\* dirsToReport for the report of ReportingErrors
Reads(s, actor) ==
    CASE s = "ReportingErrors" -> {"dirsToReport"}
      [] actor # NoActor -> DOMAIN actor.input
      [] OTHER -> {}

\* the context fields that differ between the two states of a step
Changed == {k \in DOMAIN context : context'[k] # context[k]}

\* C19 as claimed: every state reads only context fields written by the
\* transition that entered it, or immutable initial values; so the
\* dirsToReport of ReportingErrors was set by the transition that entered it.
C19_ReadsOnlyFresh ==
    [][ state' # state
        => Reads(state', invoked') \subseteq (Assigned(event') \cup Immutable) ]_vars

\* C19, amended: a transition changes only the fields it assigns; every
\* state that invokes an effect gives it only fields written by the
\* transition that entered the state, or immutable initial values; the
\* dirsToReport of ReportingErrors was set by the entering transition when
\* the state is entered from CheckingFilePermissions, and is the value an
\* earlier transition left when it is entered from Scanning or MovingFiles.
C19_DataFlow ==
    [][ /\ Changed \subseteq Assigned(event')
        /\ (state' # state /\ state' # "ReportingErrors")
           => Reads(state', invoked') \subseteq (Assigned(event') \cup Immutable)
        /\ (state' # state /\ state' = "ReportingErrors")
           => /\ "dirsToReport" \in Assigned(event')
                   <=> state = "CheckingFilePermissions"
              /\ state \in {"Scanning", "MovingFiles"}
                   => context'.dirsToReport = context.dirsToReport ]_vars

\* ReportingErrors has been entered on a failed move, holding the report the
\* permission check of the cycle made two transitions earlier.
C19_Witness ==
    /\ source = "MovingFiles"
    /\ event.type = "xstate.error.actor.moveFiles"
    /\ state = "ReportingErrors"
    /\ context.dirsToReport = <<"B">>
    /\ context.dirsToEvaluate = <<"A">>

\* C20: the fields no transition assigns keep their initial values: the two
\* paths are those of the caller's input, acceptedFileTypes is the list of
\* eleven extensions, filesToEmail and processedFiles are empty.
C20_InitialValuesKept ==
    /\ [] /\ \E input \in Inputs :
               /\ context.basePath = input.basePath
               /\ context.destinationPath = input.destinationPath
          /\ context.acceptedFileTypes =
               << "mp4", "mkv", "avi", "mov", "m4v", "mpg", "mpeg", "wmv",
                  "flv", "ts", "mts" >>
          /\ Len(context.acceptedFileTypes) = 11
          /\ context.filesToEmail = <<>>
          /\ context.processedFiles = <<>>
    /\ [][ /\ context'.basePath = context.basePath
           /\ context'.destinationPath = context.destinationPath ]_vars

\* After a cycle that failed in the move and a RESTART, the machine created
\* with the second input still holds its paths and the empty reserved lists.
C20_Witness ==
    /\ source = "ReportingErrors"
    /\ event.type = "RESTART"
    /\ state = "idle"
    /\ context.dirsToMove # <<>>
    /\ context.basePath = "/mnt/in"
    /\ context.destinationPath = "/mnt/out"
    /\ context.filesToEmail = <<>>
    /\ context.processedFiles = <<>>

=============================================================================
